---- MODULE Spec2Model ----
(***************************************************************************)
(* Model of the sovos boot core: the page-table entry primitives           *)
(* (libs/cpu/src/macros.rs), the ELF64 definitions                         *)
(* (libs/elf/src/definitions.rs) and the boot-info control block           *)
(* (libs/bootinfo/src/lib.rs).                                             *)
(*                                                                         *)
(* Number representation.  TLC integers are 32-bit signed, so              *)
(*   - a u64 is the set of its set bit positions, a subset of 0..63        *)
(*     (bitwise OR is then set union, 0 is the empty set);                 *)
(*   - a u32 is a record [hi, lo] of two 16-bit limbs, value hi*2^16+lo;   *)
(*   - u16 and u8 are plain naturals.                                      *)
(***************************************************************************)
EXTENDS Naturals, Sequences, FiniteSets

VARIABLES
    paging_root,  \* Bootinfo.paging_root : Table<PML4Entry>, index -> u64
    pdp,          \* Bootinfo.pdp         : Table<PDPEntry>
    pd,           \* Bootinfo.pd          : Table<PDEntry>
    page_table,   \* Bootinfo.page_table  : Table<PTEntry>
    pc,           \* position of the boot sequence
    verdict,      \* what the ELF validator reported for the image
    image,        \* the identification bytes the validator looked at
    cr3,          \* translation root in force: "firmware" or "bootinfo"
    idt14,        \* handler installed for vector 14: "firmware" or an entry
    rip,          \* where control is: "loader", "panic" or an entry address
    map_calls,    \* arguments of the map_kernel calls made so far, in order
    map_ret,      \* what the last map_kernel call gave back to its caller
    conflict,     \* the last map_kernel request clashed with an earlier one
    repeat,       \* length of the current run of identical map_kernel calls
    snap,         \* the four tables as the first call of that run left them
    stores,       \* number of direct entry stores made by the boot sequence
    entry,        \* the argument page_fault_jump_trick was called with
    redirects,    \* times a page fault redirected control to the entry
    call          \* the last pure function applied, its input and its result

vars == <<paging_root, pdp, pd, page_table, pc, verdict, image, cr3, idt14,
          rip, map_calls, map_ret, conflict, repeat, snap, stores, entry,
          redirects, call>>

bootvars == <<paging_root, pdp, pd, page_table, pc, verdict, image, cr3,
              idt14, rip, map_calls, map_ret, conflict, repeat, snap, stores,
              entry, redirects>>

----------------------------------------------------------------------------
(* Bounds of the model.                                                    *)

MaxStores == 1
MaxCalls == 2

----------------------------------------------------------------------------
(* Fixed-width helpers.                                                    *)

RECURSIVE Pow2(_)
Pow2(n) == IF n = 0 THEN 1 ELSE 2 * Pow2(n - 1)

\* bit i of a natural below 2^31
NatBit(n, i) == (n \div Pow2(i)) % 2 = 1

U32(h, l) == [hi |-> h, lo |-> l]

\* bit i (0..31) of a u32
WordBit(w, i) == IF i < 16 THEN NatBit(w.lo, i) ELSE NatBit(w.hi, i - 16)

\* w >> n on u32, 0 <= n < 32
Shr(w, n) ==
    IF n >= 16
    THEN U32(0, w.hi \div Pow2(n - 16))
    ELSE U32(w.hi \div Pow2(n),
             (w.lo \div Pow2(n)) + (w.hi % Pow2(n)) * Pow2(16 - n))

\* w & m on u32 for a mask m below 2^16 that is a power of two
AndMask(w, m) == IF (w.lo \div m) % 2 = 1 THEN m ELSE 0

\* `as u8`: truncation to the low eight bits
AsU8(w) == w.lo % 256

\* lexicographic order on limbs is the numeric order on u32
U32Le(a, b) == a.hi < b.hi \/ (a.hi = b.hi /\ a.lo <= b.lo)
InRange(x, lo, hi) == U32Le(lo, x) /\ U32Le(x, hi)

\* a small natural as a u64 bit set, shifted left by s
RECURSIVE BitsFrom(_, _, _)
BitsFrom(n, s, i) ==
    IF n = 0 THEN {}
    ELSE (IF n % 2 = 1 THEN {s + i} ELSE {}) \cup BitsFrom(n \div 2, s, i + 1)
ToU64(n, s) == BitsFrom(n, s, 0)

----------------------------------------------------------------------------
(* Page-table entry primitives: impl_pagelevel (libs/cpu/src/macros.rs).   *)
(* An entry is a Cell<u64>; flags and addresses are given by their u64.    *)

Levels == {"PML4", "PDP", "PD", "PT"}

\* flag bit positions of the x86-64 entry layout
BitPresent == 0
BitWritable == 1
BitUser == 2
BitWriteThrough == 3
BitCacheDisabled == 4
BitAccessed == 5
BitDirty == 6
BitLargePage == 7
BitGlobal == 8
BitNoExecute == 63

\* the flag bits that are legal at each level
LevelFlagBits(level) ==
    LET common == {BitPresent, BitWritable, BitUser, BitWriteThrough,
                   BitCacheDisabled, BitAccessed, BitNoExecute}
    IN  CASE level = "PML4" -> common
          [] level = "PDP"  -> common
          [] level = "PD"   -> common \cup {BitDirty, BitLargePage, BitGlobal}
          [] level = "PT"   -> common \cup {BitDirty, BitGlobal}

\* the bits a level-appropriately aligned physical address may occupy:
\* 4 KiB alignment for a table or a page, 2 MiB for a large page frame
AddrBits(level, large) == IF level = "PD" /\ large THEN 21..51 ELSE 12..51

\* $structname::new : Self(Cell::new(flags.as_u64() | addr.as_u64()))
new_masked(addr, flags) == [cell |-> addr \cup (flags \cap (0..11))]
new(addr, flags) == [cell |-> flags \cup addr]

\* <$structname as Bits>::as_u64 : self.0.get()
as_u64(ent) == ent.cell

\* <$structname as Bits>::from_u64_unchecked
from_u64_unchecked(x) == [cell |-> x]

\* <$structname as Entry>::ZEROED : Self(Cell::new(0))
ZEROED == [cell |-> {}]

----------------------------------------------------------------------------
(* ELF64 definitions (libs/elf/src/definitions.rs).                        *)

MAGIC_swapped == <<127, 76, 69, 70>>
MAGIC == <<127, 69, 76, 70>>
PT_LOAD == 1
PF_X == 1
PF_W == 2
PF_R == 4

None == [some |-> FALSE]
Some(t) == [some |-> TRUE, tag |-> t]
SomeVal(t, v) == [some |-> TRUE, tag |-> t, val |-> v]

\* Class::from_integer
Class_from_integer(x) ==
    CASE x = 1 -> Some("Bits32")
      [] x = 2 -> Some("Bits64")
      [] OTHER -> None

\* enum Machine: the discriminant of each variant
MachineDiscriminant(m) ==
    CASE m = "None"    -> 0
      [] m = "PowerPC" -> 20
      [] m = "Power64" -> 21
      [] m = "Arm"     -> 40
      [] m = "X86"     -> 3
      [] m = "X64"     -> 62
      [] m = "AArch64" -> 183
      [] m = "AmdGpu"  -> 224
      [] m = "RiscV"   -> 243

\* Header::machine
machine_lowbyte(e_machine) ==
    LET b == e_machine % 256
    IN  CASE b = 0   -> Some("None")
          [] b = 20  -> Some("PowerPC")
          [] b = 21  -> Some("Power64")
          [] b = 40  -> Some("Arm")
          [] b = 3   -> Some("X86")
          [] b = 62  -> Some("X64")
          [] b = 183 -> Some("AArch64")
          [] b = 224 -> Some("AmdGpu")
          [] b = 243 -> Some("RiscV")
          [] OTHER   -> None
machine(e_machine) ==
    CASE e_machine = 0   -> Some("None")
      [] e_machine = 20  -> Some("PowerPC")
      [] e_machine = 21  -> Some("Power64")
      [] e_machine = 40  -> Some("Arm")
      [] e_machine = 3   -> Some("X86")
      [] e_machine = 62  -> Some("X64")
      [] e_machine = 183 -> Some("AArch64")
      [] e_machine = 224 -> Some("AmdGpu")
      [] e_machine = 243 -> Some("RiscV")
      [] OTHER           -> None

\* SegmentType::from_integer
from_integer_exclusive(x) ==
    CASE x = U32(0, 0) -> Some("Null")
      [] x = U32(0, 1) -> Some("Load")
      [] x = U32(0, 2) -> Some("Dynamic")
      [] x = U32(0, 3) -> Some("Interpreter")
      [] x = U32(0, 4) -> Some("Note")
      [] x = U32(0, 5) -> Some("SharedLib")
      [] x = U32(0, 6) -> Some("ProgramHeader")
      [] x = U32(0, 7) -> Some("ThreadLocalStorage")
      [] InRange(x, U32(24576, 0), U32(28671, 65534)) -> SomeVal("OsSpecific", x)
      [] InRange(x, U32(28672, 0), U32(32767, 65534)) -> SomeVal("CpuSpecific", x)
      [] OTHER -> None
from_integer(x) ==
    CASE x = U32(0, 0) -> Some("Null")
      [] x = U32(0, 1) -> Some("Load")
      [] x = U32(0, 2) -> Some("Dynamic")
      [] x = U32(0, 3) -> Some("Interpreter")
      [] x = U32(0, 4) -> Some("Note")
      [] x = U32(0, 5) -> Some("SharedLib")
      [] x = U32(0, 6) -> Some("ProgramHeader")
      [] x = U32(0, 7) -> Some("ThreadLocalStorage")
      [] InRange(x, U32(24576, 0), U32(28671, 65535)) -> SomeVal("OsSpecific", x)
      [] InRange(x, U32(28672, 0), U32(32767, 65535)) -> SomeVal("CpuSpecific", x)
      [] OTHER -> None

\* ProgramHeader::segment_type
segment_type(p_type) == from_integer(p_type)

\* ProgramHeader::is_executable / is_writable / is_readable
is_executable(p_flags) == Shr(p_flags, 0).lo % 2 = 1
is_writable(p_flags) == Shr(p_flags, 1).lo % 2 = 1
is_readable(p_flags) == Shr(p_flags, 2).lo % 2 = 1

\* ProgramHeader::os_specific_flags : (self.p_flags >> 20) as u8
os_specific_flags(p_flags) == AsU8(Shr(p_flags, 20))

\* ProgramHeader::cpu_specific_flags : (self.p_flags >> 28) as u8
cpu_specific_flags_shr24(p_flags) == AsU8(Shr(p_flags, 24))
cpu_specific_flags(p_flags) == AsU8(Shr(p_flags, 28))

----------------------------------------------------------------------------
(* The boot-info control block (libs/bootinfo/src/lib.rs).                 *)

\* entries of a paging::Table
ENTRIES == 512
TableIndex == 0..(ENTRIES - 1)

\* paging::Table::new() : every entry ZEROED
Table_new == [i \in TableIndex |-> as_u64(ZEROED)]

\* the page tables of a control block, as one value
Tables(root, p3, p2, p1) ==
    [paging_root |-> root, pdp |-> p3, pd |-> p2, page_table |-> p1]
self == Tables(paging_root, pdp, pd, page_table)

\* Bootinfo::new : the four tables freshly constructed
Bootinfo_new == Tables(Table_new, Table_new, Table_new, Table_new)

\* PhysSlice<Megapage>: a run of len 2 MiB frames from frame number addr
PhysSlice(a, l) == [addr |-> a, len |-> l]

\* the kernel base of map_kernel, 0xffff_ffff_c000_0000, as a u64
base == 30..63

\* index of the first free (not present) PD entry at or after i
RECURSIVE FirstFree(_, _)
FirstFree(t, i) ==
    IF i >= ENTRIES - 1 \/ BitPresent \notin t[i] THEN i ELSE FirstFree(t, i + 1)

\* Bootinfo::map_kernel : binds base and returns; the tables are untouched
map_kernel_append(this, text, rodata, data) ==
    LET i == FirstFree(this.pd, 0)
    IN  [this EXCEPT !.pd[i] =
            as_u64(new(ToU64(text.addr, 21), {BitPresent, BitLargePage}))]
map_kernel(this, text, rodata, data) == this

\* the permissions a map_kernel request asks for, per PD index above base:
\* text, then rodata, then data, one index per megapage
RequestedPerms(text, rodata, data) ==
    [i \in 0..(text.len + rodata.len + data.len - 1) |->
        IF i < text.len THEN "RX"
        ELSE IF i < text.len + rodata.len THEN "R" ELSE "RW"]

\* two requests overlap on an index with differing permissions
Conflicts(c1, c2) ==
    LET p1 == RequestedPerms(c1[1], c1[2], c1[3])
        p2 == RequestedPerms(c2[1], c2[2], c2[3])
    IN  \E i \in (DOMAIN p1) \cap (DOMAIN p2) : p1[i] # p2[i]

\* the ELF validator: magic first, class second
validate(magic, class) ==
    IF magic # MAGIC THEN "NotElf"
    ELSE IF Class_from_integer(class) # Some("Bits64") THEN "UnsupportedClass"
    ELSE "Ok"

\* the three states of the transition trampoline, read off the machine state
TrampolineState ==
    IF cr3 = "firmware" THEN "OldMappingActive"
    ELSE IF rip = entry THEN "NewMappingActive" ELSE "InTransition"

----------------------------------------------------------------------------
(* Inputs.                                                                 *)

MagicSamples ==
    {<<127, 69, 76, 70>>, <<127, 69, 76, 71>>, <<0, 69, 76, 70>>,
     <<127, 76, 69, 70>>,
     <<70, 76, 69, 127>>}
ClassSamples == 0..3
TextSlices == {PhysSlice(1, 1), PhysSlice(1, 2)}
RodataSlices == {PhysSlice(3, 1), PhysSlice(3, 2)}
DataSlices == {PhysSlice(5, 1)}
EntrySamples == {"kernel_main"}
StoreIndex == {0, 511}
StoreAddr == {ToU64(1, 21)}
StoreFlags == {{BitPresent}, {BitPresent, BitWritable, BitNoExecute}}

----------------------------------------------------------------------------
(* The boot sequence.                                                      *)

Init ==
    /\ paging_root = Bootinfo_new.paging_root
    /\ pdp = Bootinfo_new.pdp
    /\ pd = Bootinfo_new.pd
    /\ page_table = Bootinfo_new.page_table
    /\ pc = "loaded"
    /\ verdict = "none"
    /\ image = [magic |-> <<>>, class |-> 0]
    /\ cr3 = "firmware"
    /\ idt14 = "firmware"
    /\ rip = "loader"
    /\ map_calls = <<>>
    /\ map_ret = "none"
    /\ conflict = FALSE
    /\ repeat = 0
    /\ snap = Bootinfo_new
    /\ stores = 0
    /\ entry = "none"
    /\ redirects = 0
    /\ call = [fn |-> "none"]

\* the validator looks at the identification bytes of the loaded image
Validate(magic, class) ==
    /\ pc = "loaded"
    /\ image' = [magic |-> magic, class |-> class]
    /\ verdict' = validate(magic, class)
    /\ pc' = IF validate(magic, class) = "Ok" THEN "validated" ELSE "rejected"
    /\ UNCHANGED <<paging_root, pdp, pd, page_table, cr3, idt14, rip,
                   map_calls, map_ret, conflict, repeat, snap, stores, entry,
                   redirects, call>>

\* the boot sequence stores an entry into one of the pub tables
StoreEntry(level, i, addr, flags) ==
    /\ pc \in {"loaded", "validated"}
    /\ stores < MaxStores
    /\ stores' = stores + 1
    /\ LET e == as_u64(new(addr, flags))
       IN  /\ paging_root' =
                IF level = "PML4" THEN [paging_root EXCEPT ![i] = e]
                ELSE paging_root
           /\ pdp' = IF level = "PDP" THEN [pdp EXCEPT ![i] = e] ELSE pdp
           /\ pd' = IF level = "PD" THEN [pd EXCEPT ![i] = e] ELSE pd
           /\ page_table' =
                IF level = "PT" THEN [page_table EXCEPT ![i] = e]
                ELSE page_table
    /\ repeat' = 0
    /\ UNCHANGED <<pc, verdict, image, cr3, idt14, rip, map_calls, map_ret,
                   conflict, snap, entry, redirects, call>>

\* a call of Bootinfo::map_kernel, made only for a validated image
MapKernel(text, rodata, data) ==
    /\ pc = "validated"
    /\ Len(map_calls) < MaxCalls
    /\ LET after == map_kernel(self, text, rodata, data)
           args == <<text, rodata, data>>
           again == repeat > 0 /\ map_calls[Len(map_calls)] = args
       IN  /\ paging_root' = after.paging_root
           /\ pdp' = after.pdp
           /\ pd' = after.pd
           /\ page_table' = after.page_table
           /\ map_calls' = Append(map_calls, args)
           /\ conflict' =
                \E k \in 1..Len(map_calls) : Conflicts(map_calls[k], args)
           /\ repeat' = IF again THEN repeat + 1 ELSE 1
           /\ snap' = IF again THEN snap ELSE after
    /\ map_ret' = "unit"
    /\ UNCHANGED <<pc, verdict, image, cr3, idt14, rip, stores, entry,
                   redirects, call>>

\* a call of Bootinfo::page_fault_jump_trick: binds the vector number 14
\* and runs into unreachable!(), which panics; it never returns
page_fault_jump_trick(e) ==
    /\ pc = "validated"
    /\ map_calls # <<>>
    /\ entry' = e
    /\ pc' = "diverged"
    /\ rip' = "panic"
    /\ UNCHANGED <<paging_root, pdp, pd, page_table, verdict, image, cr3,
                   idt14, map_calls, map_ret, conflict, repeat, snap, stores,
                   redirects, call>>

Next ==
    \/ \E m \in MagicSamples, c \in ClassSamples : Validate(m, c)
    \/ \E l \in Levels, i \in StoreIndex, a \in StoreAddr, f \in StoreFlags :
          StoreEntry(l, i, a, f)
    \/ \E t \in TextSlices, r \in RodataSlices, d \in DataSlices :
          MapKernel(t, r, d)
    \/ \E e \in EntrySamples : page_fault_jump_trick(e)

Spec == Init /\ [][Next]_vars

----------------------------------------------------------------------------
(* Applications of the pure functions to inputs drawn from bounded sets:   *)
(* one function is applied, once, to one input, and its result recorded.   *)

AddrSamples(level, large) ==
    LET lowest == IF level = "PD" /\ large THEN 21 ELSE 12
    IN  {{}, {lowest}, {51}, {lowest, 30}, AddrBits(level, large)}
FlagSamples(level) == SUBSET LevelFlagBits(level)
MachineSamples == 0..65535
TypeHi == {0, 1, 24575, 24576, 24577, 28671, 28672, 28673, 32767, 32768, 65535}
TypeLo == (0..9) \cup {65534, 65535}
FlagsLo == (0..8) \cup {43690, 65528, 65535}
FlagsNib == {0, 15}
FlagsOs == {0, 1, 128, 170, 255}
FlagsCpu == {0, 1, 8, 10, 15}

\* nothing more is applied once a result has been recorded
Applied == call.fn # "none"

ApplyNew ==
    /\ ~Applied
    /\ \E level \in Levels, large \in BOOLEAN :
          \E addr \in AddrSamples(level, large), flags \in FlagSamples(level) :
             call' = [fn |-> "new", level |-> level, addr |-> addr,
                      flags |-> flags, ret |-> as_u64(new(addr, flags))]
    /\ UNCHANGED bootvars

ApplyZeroed ==
    /\ ~Applied
    /\ \E level \in Levels :
          call' = [fn |-> "ZEROED", level |-> level, ret |-> as_u64(ZEROED)]
    /\ UNCHANGED bootvars

ApplyMachine ==
    /\ ~Applied
    /\ \E e_machine \in MachineSamples :
          call' = [fn |-> "machine", arg |-> e_machine,
                   ret |-> machine(e_machine)]
    /\ UNCHANGED bootvars

ApplySegmentType ==
    /\ ~Applied
    /\ \E h \in TypeHi, l \in TypeLo :
          call' = [fn |-> "segment_type", arg |-> U32(h, l),
                   ret |-> segment_type(U32(h, l))]
    /\ UNCHANGED bootvars

ApplyFlags ==
    /\ ~Applied
    /\ \E l \in FlagsLo, n \in FlagsNib, o \in FlagsOs, c \in FlagsCpu :
          LET p_flags == U32(n + 16 * o + 4096 * c, l)
          IN  call' = [fn |-> "p_flags", arg |-> p_flags,
                       x |-> is_executable(p_flags),
                       w |-> is_writable(p_flags),
                       r |-> is_readable(p_flags),
                       os |-> os_specific_flags(p_flags),
                       cpu |-> cpu_specific_flags(p_flags)]
    /\ UNCHANGED bootvars

NextPure ==
    \/ ApplyNew
    \/ ApplyZeroed
    \/ ApplyMachine
    \/ ApplySegmentType
    \/ ApplyFlags

SpecPure == Init /\ [][NextPure]_vars

----------------------------------------------------------------------------
(* Properties.                                                             *)

\* C1: an entry built by new(A, F) from a level-appropriately aligned
\* address A and flags F of the level reads back through as_u64 as exactly
\* A | F, bit for bit (no bit lost, none added); ZEROED reads back as 0.
C1_NewReadsBack ==
    /\ call.fn = "new" =>
          \A i \in 0..63 :
             (i \in call.ret) <=> (i \in call.addr \/ i \in call.flags)
    /\ call.fn = "ZEROED" => call.ret = {}

C1_Witness ==
    /\ call.fn = "new"
    /\ call.level = "PD"
    /\ call.addr = 21..51
    /\ {BitPresent, BitLargePage, BitNoExecute} \subseteq call.flags
    /\ call.ret = call.addr \cup call.flags

KnownMachines == {0, 3, 20, 21, 40, 62, 183, 224, 243}

\* C9: Header::machine gives Some(m) exactly for the nine known e_machine
\* codes, m's discriminant is then the code itself (62 is X64), and every
\* other 16-bit value gives None.
C9_MachineDecode ==
    call.fn = "machine" =>
        /\ call.ret.some <=> call.arg \in KnownMachines
        /\ call.ret.some => MachineDiscriminant(call.ret.tag) = call.arg
        /\ call.arg = 62 => call.ret = Some("X64")
        /\ call.arg \notin KnownMachines => call.ret = None

C9_Witness ==
    /\ call.fn = "machine"
    /\ call.arg = 318
    /\ call.ret = None

SmallTypes ==
    <<"Null", "Load", "Dynamic", "Interpreter", "Note", "SharedLib",
      "ProgramHeader", "ThreadLocalStorage">>

\* C8: SegmentType::from_integer maps 0..7 to the eight named types in
\* order, 0x60000000..=0x6fffffff to OsSpecific(x), 0x70000000..=0x7fffffff
\* to CpuSpecific(x), anything else to None; Load comes from tag 1 only.
C8_SegmentType ==
    call.fn = "segment_type" =>
        LET x == call.arg
            r == call.ret
        IN  /\ (x.hi = 0 /\ x.lo <= 7) => r = Some(SmallTypes[x.lo + 1])
            /\ (x.hi >= 24576 /\ x.hi <= 28671) =>
                  r.some /\ r.tag = "OsSpecific" /\ r.val = x
            /\ (x.hi >= 28672 /\ x.hi <= 32767) =>
                  r.some /\ r.tag = "CpuSpecific" /\ r.val = x
            /\ ~ \/ (x.hi = 0 /\ x.lo <= 7)
                 \/ (x.hi >= 24576 /\ x.hi <= 32767)
               => r = None
            /\ (r.some /\ r.tag = "Load") <=> x = U32(0, PT_LOAD)

C8_Witness ==
    /\ call.fn = "segment_type"
    /\ call.arg = U32(28671, 65535)
    /\ call.ret.some
    /\ call.ret.tag = "OsSpecific"

\* the word with its bits 20..27 replaced by v, and with bits 28..31
\* replaced by c
WithOsBits(w, v) == U32((w.hi % 16) + 16 * v + 4096 * (w.hi \div 4096), w.lo)
WithCpuBits(w, c) == U32((w.hi % 4096) + 4096 * c, w.lo)

\* C10: the permission predicates are bits 0, 1, 2 of p_flags (the masks
\* PF_X, PF_W, PF_R) and depend on no other bit; os_specific_flags is bits
\* 20..27 and cpu_specific_flags the bits from 28 up, each as an 8-bit
\* value; changing only the OS bits leaves the CPU result and the
\* permissions alone, and the other way round.
C10_ProgramHeaderFlags ==
    call.fn = "p_flags" =>
        LET w == call.arg
        IN  /\ call.x <=> WordBit(w, 0)
            /\ call.w <=> WordBit(w, 1)
            /\ call.r <=> WordBit(w, 2)
            /\ call.x <=> AndMask(w, PF_X) # 0
            /\ call.w <=> AndMask(w, PF_W) # 0
            /\ call.r <=> AndMask(w, PF_R) # 0
            /\ call.os \in 0..255
            /\ call.cpu \in 0..255
            /\ \A i \in 0..7 : NatBit(call.os, i) <=> WordBit(w, 20 + i)
            /\ \A i \in 0..7 :
                  NatBit(call.cpu, i) <=> (28 + i <= 31 /\ WordBit(w, 28 + i))
            /\ \A v \in 0..255 :
                  /\ cpu_specific_flags(WithOsBits(w, v)) = call.cpu
                  /\ is_executable(WithOsBits(w, v)) = call.x
                  /\ is_writable(WithOsBits(w, v)) = call.w
                  /\ is_readable(WithOsBits(w, v)) = call.r
            /\ \A c \in 0..15 :
                  /\ os_specific_flags(WithCpuBits(w, c)) = call.os
                  /\ is_executable(WithCpuBits(w, c)) = call.x
                  /\ is_writable(WithCpuBits(w, c)) = call.w
                  /\ is_readable(WithCpuBits(w, c)) = call.r
            /\ \A l \in FlagsLo, h \in {0, 65535} :
                  l % 8 = w.lo % 8 =>
                     /\ is_executable(U32(h, l)) = call.x
                     /\ is_writable(U32(h, l)) = call.w
                     /\ is_readable(U32(h, l)) = call.r

C10_Witness ==
    /\ call.fn = "p_flags"
    /\ call.arg = U32(15 + 16 * 170 + 4096 * 10, 65535)
    /\ call.os = 170
    /\ call.cpu = 10
    /\ call.x /\ call.w /\ call.r


\* index into the PD table of a virtual address: its bits 21..29
PdIndex(v) ==
    (IF 21 \in v THEN 1 ELSE 0) + (IF 22 \in v THEN 2 ELSE 0) +
    (IF 23 \in v THEN 4 ELSE 0) + (IF 24 \in v THEN 8 ELSE 0) +
    (IF 25 \in v THEN 16 ELSE 0) + (IF 26 \in v THEN 32 ELSE 0) +
    (IF 27 \in v THEN 64 ELSE 0) + (IF 28 \in v THEN 128 ELSE 0) +
    (IF 29 \in v THEN 256 ELSE 0)

\* virtual address of the k-th megapage above the kernel base
KernelVaddr(k) == base \cup ToU64(k, 21)

\* a present PD large-page entry for frame number f
LargeEntryFor(e, f) ==
    /\ BitPresent \in e
    /\ BitLargePage \in e
    /\ e \cap (21..51) = ToU64(f, 21)

\* one map_kernel call on a fresh control block, one megapage per segment
FreshSingleCall ==
    /\ stores = 0
    /\ Len(map_calls) = 1
    /\ \A k \in 1..3 : map_calls[1][k].len = 1

\* C2: after map_kernel(text, rodata, data) on a fresh control block with
\* one megapage per slice, the PD table holds exactly three present
\* large-page entries, at the indices of 0xFFFFFFFFC0000000,
\* 0xFFFFFFFFC0200000 and 0xFFFFFFFFC0400000, for the text, rodata and data
\* frames with NX=0, (NX=1, W=0) and (NX=1, W=1), and the PT table holds
\* present 4 KiB entries for the control block.
C2_ThreeLargePages ==
    FreshSingleCall =>
        LET text == map_calls[1][1]
            rodata == map_calls[1][2]
            data == map_calls[1][3]
            e0 == pd[PdIndex(KernelVaddr(0))]
            e1 == pd[PdIndex(KernelVaddr(1))]
            e2 == pd[PdIndex(KernelVaddr(2))]
        IN  /\ {i \in TableIndex : BitPresent \in pd[i]} =
                  {PdIndex(KernelVaddr(k)) : k \in 0..2}
            /\ LargeEntryFor(e0, text.addr)
            /\ BitNoExecute \notin e0
            /\ LargeEntryFor(e1, rodata.addr)
            /\ BitNoExecute \in e1 /\ BitWritable \notin e1
            /\ LargeEntryFor(e2, data.addr)
            /\ BitNoExecute \in e2 /\ BitWritable \in e2
            /\ \E i \in TableIndex : BitPresent \in page_table[i]

\* C3: the trampoline takes exactly one expected page fault, which
\* redirects control to the kernel entry exactly once: when
\* page_fault_jump_trick has run, one redirect has happened.
C3_OneFaultOneRedirect ==
    pc = "diverged" => redirects = 1

\* C4: the trampoline goes OldMappingActive -> InTransition ->
\* NewMappingActive with the vector-14 handler installed before the root
\* table is loaded, and ends with control at the kernel entry point: when
\* page_fault_jump_trick has run, the handler is installed, the new
\* mapping is active and control is at the entry.
C4_EndsInKernel ==
    pc = "diverged" =>
        /\ idt14 = entry
        /\ TrampolineState = "NewMappingActive"
        /\ rip = entry

\* C5: a map_kernel request that overlaps an earlier request with
\* different permissions is reported to the caller as an error.
C5_ConflictReported ==
    conflict => map_ret = "error"

\* C6: map_kernel called twice in a row with the same arguments leaves the
\* four page tables as the first of the two calls left them.
C6_Idempotent ==
    repeat >= 2 => self = snap

C6_Witness ==
    /\ repeat >= 2
    /\ stores > 0
    /\ self # Bootinfo_new
    /\ map_calls[Len(map_calls)] = map_calls[Len(map_calls) - 1]

\* C7: the validator reports NotElf for any image whose first four bytes
\* are not 0x7F 'E' 'L' 'F', whatever the class byte, UnsupportedClass for
\* right magic with a class other than 64-bit (2), and after either report
\* map_kernel is never called.
C7_ValidatorOrder ==
    /\ verdict # "none" =>
          /\ image.magic # <<127, 69, 76, 70>> => verdict = "NotElf"
          /\ (image.magic = <<127, 69, 76, 70>> /\ image.class # 2) =>
                verdict = "UnsupportedClass"
    /\ verdict \in {"NotElf", "UnsupportedClass"} =>
          map_calls = <<>> /\ map_ret = "none"

C7_Witness ==
    /\ verdict = "NotElf"
    /\ image.class = 2
    /\ pc = "rejected"
    /\ map_calls = <<>>

====
